---- MODULE Spec2Model ----
(***************************************************************************)
(* Catalog query service: models/products_repository.go (listing with      *)
(* pagination and category / price filters) over a relational store.       *)
(*                                                                         *)
(* The store is a pair of tables (products, categories).  A listing call   *)
(* is three steps, as in the code: validate the pagination window, run the *)
(* COUNT query, run the paginated SELECT.  The two queries are separate    *)
(* round trips, so a committed write may fall between them.  Neither query *)
(* has an ORDER BY: the order in which the store hands back the matching   *)
(* rows is whatever the store finds fastest, so each SELECT draws it from  *)
(* all orderings of the matching rows.                                     *)
(* Prices are exact decimals, modelled as integer cents.                   *)
(***************************************************************************)
EXTENDS Integers, Sequences, FiniteSets, TLC

VARIABLES products, categories, variants, version, call, lookup, http, catcall, cathttp

vars == <<products, categories, variants, version, call, lookup, http, catcall, cathttp>>

(***************************************************************************)
(* Bounds of the explored inputs.                                          *)
(***************************************************************************)
MaxOffset == 2
MaxLimit == 2
PairMaxOffset == 1
PairMaxLimit == 2
MaxWrites == 4

Requests == {"r1", "r2"}

(* models.ErrInvalidPagination, and any error the store driver reports. *)
ErrNone == "nil"
ErrInvalidPagination == "invalid pagination parameters"
ErrStore == "store error"

(***************************************************************************)
(* Seed data: three categories; products PROD001 and PROD004 are CLOTHING, *)
(* PROD002 is SHOES, and PRODNEW is a row whose category_id was never set  *)
(* (the column is nullable, 0 stands for NULL).                            *)
(***************************************************************************)
SeedCategories ==
    { [id |-> 1, code |-> "CLOTHING", name |-> "Clothing"],
      [id |-> 2, code |-> "SHOES", name |-> "Shoes"],
      [id |-> 3, code |-> "ACCESSORIES", name |-> "Accessories"] }

SeedProducts ==
    { [id |-> 1, code |-> "PROD001", price |-> 1200, category_id |-> 1],
      [id |-> 2, code |-> "PROD002", price |-> 800, category_id |-> 2],
      [id |-> 4, code |-> "PROD004", price |-> 800, category_id |-> 1],
      [id |-> 9, code |-> "PRODNEW", price |-> 1000, category_id |-> 0] }

(* Variants of the seed products; price 0 stands for a NULL price column. *)
SeedVariants ==
    { [id |-> 1, product_id |-> 1, name |-> "Variant A", sku |-> "SKU001A", price |-> 0],
      [id |-> 2, product_id |-> 1, name |-> "Variant B", sku |-> "SKU001B", price |-> 1500],
      [id |-> 3, product_id |-> 2, name |-> "Variant A", sku |-> "SKU002A", price |-> 0] }

(* The zero value of models.Category, left by Preload when nothing matches. *)
ZeroCategory == [id |-> 0, code |-> "", name |-> ""]

(***************************************************************************)
(* ProductFilters.  PriceLessThan is a *decimal.Decimal: set = FALSE is    *)
(* the nil pointer.                                                        *)
(***************************************************************************)
NoPrice == [set |-> FALSE, val |-> 0]

PriceOf(v) == [set |-> TRUE, val |-> v]

ProductFilters(offset, limit, categoryCode, priceLessThan) ==
    [Offset |-> offset, Limit |-> limit, CategoryCode |-> categoryCode,
     PriceLessThan |-> priceLessThan]

(* Inputs drawn by the callers. *)
CategoryCodeInputs == {"", "CLOTHING", "SHOES", "clothing", "CLOTH"}

PriceInputs == {NoPrice, PriceOf(800), PriceOf(1000)}

FilterInputs ==
    { ProductFilters(o, l, c, p) :
        o \in -1 .. MaxOffset, l \in -1 .. MaxLimit,
        c \in CategoryCodeInputs, p \in PriceInputs }

(* Two filter sets, each matched by two of the categorised seed products. *)
PairFilterSets == {<<"CLOTHING", NoPrice>>, <<"", PriceOf(1000)>>}

PairFilterInputs ==
    { ProductFilters(o, l, cp[1], cp[2]) :
        o \in 0 .. PairMaxOffset, l \in 1 .. PairMaxLimit, cp \in PairFilterSets }

(***************************************************************************)
(* Pure helpers of the queries.                                            *)
(***************************************************************************)
Min(a, b) == IF a < b THEN a ELSE b

Max(a, b) == IF a > b THEN a ELSE b

(* Case folding of the category codes in play (used by a mutant only). *)
Fold(s) == IF s = "clothing" THEN "CLOTHING" ELSE s

(* Codes of which a shorter input code is a proper prefix (mutant only). *)
HasPrefix(s, prefix) == s = prefix \/ (prefix = "CLOTH" /\ s = "CLOTHING")

(* if offset < 0 || limit <= 0 { return nil, 0, ErrInvalidPagination } *)
InvalidPaginationLimitOnly(offset, limit) == limit <= 0

InvalidPagination(offset, limit) == offset < 0 \/ limit <= 0

(* Where("categories.code = ?", filters.CategoryCode) *)
CategoryCodeEqualsFold(code, wanted) == Fold(code) = Fold(wanted)

CategoryCodeEqualsPrefix(code, wanted) == HasPrefix(code, wanted)

CategoryCodeEquals(code, wanted) == code = wanted

(* Where("products.price < ?", filters.PriceLessThan) *)
PriceBelowOrEqual(price, threshold) == price <= threshold

PriceBelow(price, threshold) == price < threshold

(* A join without its ON condition: any category with the code lets every
   product pass. *)
CategoryFilterCrossJoin(p, cats, f) ==
    f.CategoryCode # "" => \E c \in cats : CategoryCodeEquals(c.code, f.CategoryCode)

(* A left join: a product without category passes every category filter. *)
CategoryFilterLeftJoin(p, cats, f) ==
    f.CategoryCode # "" =>
        \/ p.category_id = 0
        \/ \E c \in cats : c.id = p.category_id /\ CategoryCodeEquals(c.code, f.CategoryCode)

(* JOIN categories ON categories.id = products.category_id
   WHERE categories.code = ? : an inner join, so a row with no category
   never passes a non-empty category filter. *)
CategoryFilter(p, cats, f) ==
    f.CategoryCode # "" =>
        \E c \in cats : c.id = p.category_id /\ CategoryCodeEquals(c.code, f.CategoryCode)

PriceFilter(p, f) ==
    f.PriceLessThan.set => PriceBelow(p.price, f.PriceLessThan.val)

(* The two filters are chained on one query: both apply. *)
MatchesEither(p, cats, f) ==
    \/ (f.CategoryCode # "" /\ CategoryFilter(p, cats, f))
    \/ (f.PriceLessThan.set /\ PriceFilter(p, f))
    \/ (f.CategoryCode = "" /\ ~f.PriceLessThan.set)

Matches(p, cats, f) == CategoryFilter(p, cats, f) /\ PriceFilter(p, f)

(* The rows selected by the query built at lines 83-94. *)
QueryRows(prods, cats, f) == {p \in prods : Matches(p, cats, f)}

(* Preload("Category"): the product with its category record attached. *)
Preload(p, cats) ==
    [id |-> p.id, code |-> p.code, price |-> p.price, category_id |-> p.category_id,
     Category |-> IF \E c \in cats : c.id = p.category_id
                  THEN CHOOSE c \in cats : c.id = p.category_id
                  ELSE ZeroCategory]

(* Every order in which the store may hand back the rows of S. *)
Orderings(S) ==
    { s \in [1 .. Cardinality(S) -> S] : \A i, j \in 1 .. Cardinality(S) : s[i] = s[j] => i = j }

(* Offset(offset).Limit(limit) applied to the rows in the order delivered. *)
WindowNoLimit(rows, offset, limit) == SubSeq(rows, offset + 1, Len(rows))

WindowNoOffset(rows, offset, limit) == SubSeq(rows, 1, Min(limit, Len(rows)))

Window(rows, offset, limit) == SubSeq(rows, offset + 1, Min(offset + limit, Len(rows)))

(* What Count(&total) reports for the rows of the query. *)
CountPaged(rows, f) == Min(f.Limit, Max(0, Cardinality(rows) - f.Offset))

CountRows(rows, f) == Cardinality(rows)

(***************************************************************************)
(* A call in flight, and its return values once pc = "done".               *)
(*   products / productsNil : the returned slice (nil or a sequence)       *)
(*   reads                  : queries this call has issued to the store    *)
(*   cver, fver             : store version read by COUNT and by SELECT    *)
(***************************************************************************)
IdleCall ==
    [op |-> "none", pc |-> "idle", filters |-> ProductFilters(0, 0, "", NoPrice),
     products |-> <<>>, productsNil |-> TRUE, total |-> 0, err |-> ErrNone,
     reads |-> 0, cver |-> 0, fver |-> 0]

FailedKeepingTotal(c, e) ==
    [c EXCEPT !.pc = "done", !.products = <<>>, !.productsNil = TRUE, !.err = e]

(* return nil, 0, err *)
Failed(c, e) ==
    [c EXCEPT !.pc = "done", !.products = <<>>, !.productsNil = TRUE, !.total = 0, !.err = e]

(***************************************************************************)
(* A GetProductByCode call and its return values (product is the zero      *)
(* Product and productNil holds when the returned pointer is nil); ver is  *)
(* the store version the lookup read.                                      *)
(***************************************************************************)
ZeroProduct ==
    [id |-> 0, code |-> "", price |-> 0, category_id |-> 0, Category |-> ZeroCategory,
     Variants |-> <<>>]

IdleLookup ==
    [pc |-> "idle", code |-> "", product |-> ZeroProduct, productNil |-> TRUE,
     err |-> ErrNone, ver |-> 0]

(***************************************************************************)
(* An HTTP request: its raw query values / path value, and the response    *)
(* written (status 0: none yet).  The raw offset, limit and priceLessThan  *)
(* are texts, held as sequences of characters.                             *)
(***************************************************************************)
NoQuery == [offset |-> <<>>, limit |-> <<>>, category |-> "", priceLessThan |-> <<>>]

ZeroDetail ==
    [code |-> "", price |-> [float64 |-> 0], category |-> [code |-> "", name |-> ""],
     variants |-> <<>>]

NoBody == [error |-> "", products |-> <<>>, total |-> 0, detail |-> ZeroDetail]

IdleHTTP ==
    [endpoint |-> "none", pc |-> "idle", query |-> NoQuery, code |-> "",
     status |-> 0, body |-> NoBody]

(***************************************************************************)
(* A call of CategoriesRepository (CreateCategory or GetAllCategories) and *)
(* its results.  The argument of CreateCategory is a *Category: nil holds  *)
(* for the nil pointer; Code and Name are texts, sequences of characters.  *)
(* ID is the category.ID the caller sees after the call.                   *)
(***************************************************************************)
NilCategory == [nil |-> TRUE, Code |-> <<>>, Name |-> <<>>]

CategoryOf(code, name) == [nil |-> FALSE, Code |-> code, Name |-> name]

IdleCategoryCall ==
    [op |-> "none", pc |-> "idle", category |-> NilCategory, err |-> ErrNone, ID |-> 0,
     categories |-> <<>>, categoriesNil |-> TRUE, ver |-> 0]

(* A POST /categories request: the body, and the response written. *)
NoCategoryBody == [error |-> "", code |-> "", name |-> ""]

IdleCategoryHTTP ==
    [pc |-> "idle", decodable |-> TRUE, req |-> CategoryOf(<<>>, <<>>),
     status |-> 0, body |-> NoCategoryBody]

Init ==
    /\ products = SeedProducts
    /\ categories = SeedCategories
    /\ variants = SeedVariants
    /\ version = 0
    /\ call = [r \in Requests |-> IdleCall]
    /\ lookup = [r \in Requests |-> IdleLookup]
    /\ http = [r \in Requests |-> IdleHTTP]
    /\ catcall = [r \in Requests |-> IdleCategoryCall]
    /\ cathttp = [r \in Requests |-> IdleCategoryHTTP]

(* Entry of the call made by request r: var products []Product;
   var total int64; validation. *)
Begin(r, op, f) ==
    /\ call[r].pc = "idle"
    /\ LET c == [IdleCall EXCEPT !.op = op, !.filters = f]
       IN call' = [call EXCEPT ![r] =
                     IF InvalidPagination(f.Offset, f.Limit)
                     THEN Failed(c, ErrInvalidPagination)
                     ELSE [c EXCEPT !.pc = "count"]]
    /\ UNCHANGED <<products, categories, variants, version, lookup, catcall, cathttp>>

(* A direct call of the repository (no HTTP request involved). *)
GetProductsWithFilters(r, F) ==
    /\ lookup[r].pc = "idle"
    /\ \E f \in F : Begin(r, "GetProductsWithFilters", f)
    /\ UNCHANGED http

GetAllProducts(r, F) ==
    /\ lookup[r].pc = "idle"
    /\ \E f \in F :
          /\ f.CategoryCode = ""
          /\ ~f.PriceLessThan.set
          /\ Begin(r, "GetAllProducts", f)
    /\ UNCHANGED http

(* A repository that kept the query of the latest call in a field shared
   by its callers: the count runs with the filters of a call in progress. *)
CountSharedQuery(r) ==
    /\ call[r].pc = "count"
    /\ \E q \in Requests :
         /\ call[q].op # "none"
         /\ LET c == call[r]
                f == call[q].filters
            IN call' = [call EXCEPT ![r] =
                          [c EXCEPT !.pc = "fetch",
                                    !.total = CountRows(QueryRows(products, categories, f), f),
                                    !.reads = c.reads + 1,
                                    !.cver = version]]
    /\ UNCHANGED <<products, categories, variants, version, lookup, http, catcall, cathttp>>

(* query.Count(&total) succeeds. *)
Count(r) ==
    /\ call[r].pc = "count"
    /\ LET c == call[r]
       IN call' = [call EXCEPT ![r] =
                     [c EXCEPT !.pc = "fetch",
                               !.total = CountRows(QueryRows(products, categories, c.filters), c.filters),
                               !.reads = c.reads + 1,
                               !.cver = version]]
    /\ UNCHANGED <<products, categories, variants, version, lookup, http, catcall, cathttp>>

(* query.Count(&total) fails: return nil, 0, err. *)
CountError(r) ==
    /\ call[r].pc = "count"
    /\ LET c == call[r]
       IN call' = [call EXCEPT ![r] =
                     Failed([c EXCEPT !.reads = c.reads + 1, !.cver = version], ErrStore)]
    /\ UNCHANGED <<products, categories, variants, version, lookup, http, catcall, cathttp>>

(* A page fetch that also counts again, returning the total of the state
   the page was read from. *)
FetchRecounting(r) ==
    /\ call[r].pc = "fetch"
    /\ \E rows \in Orderings(QueryRows(products, categories, call[r].filters)) :
         LET c == call[r]
             page == Window(rows, c.filters.Offset, c.filters.Limit)
         IN call' = [call EXCEPT ![r] =
                       [c EXCEPT !.pc = "done",
                                 !.products = [i \in 1 .. Len(page) |-> Preload(page[i], categories)],
                                 !.productsNil = FALSE,
                                 !.total = Len(rows),
                                 !.reads = c.reads + 1,
                                 !.fver = version]]
    /\ UNCHANGED <<products, categories, variants, version, lookup, http, catcall, cathttp>>

(* query.Preload(...).Offset(o).Limit(l).Find(&products) succeeds;
   return products, total, nil. *)
Fetch(r) ==
    /\ call[r].pc = "fetch"
    /\ \E rows \in Orderings(QueryRows(products, categories, call[r].filters)) :
         LET c == call[r]
             page == Window(rows, c.filters.Offset, c.filters.Limit)
         IN call' = [call EXCEPT ![r] =
                       [c EXCEPT !.pc = "done",
                                 !.products = [i \in 1 .. Len(page) |-> Preload(page[i], categories)],
                                 !.productsNil = FALSE,
                                 !.reads = c.reads + 1,
                                 !.fver = version]]
    /\ UNCHANGED <<products, categories, variants, version, lookup, http, catcall, cathttp>>

(* Find fails: return nil, 0, err. *)
FetchError(r) ==
    /\ call[r].pc = "fetch"
    /\ LET c == call[r]
       IN call' = [call EXCEPT ![r] =
                     Failed([c EXCEPT !.reads = c.reads + 1, !.fver = version], ErrStore)]
    /\ UNCHANGED <<products, categories, variants, version, lookup, http, catcall, cathttp>>

(* db.Where("code = ?", code).Delete(&Product{}) : a committed write. *)
DeleteProduct ==
    /\ \E p \in products :
         products' = products \ {q \in products : q.code = p.code}
    /\ version' = version + 1
    /\ UNCHANGED <<categories, variants, call, lookup, http, catcall, cathttp>>

(* A committed insert by another session: a seed product that is not
   stored (it was deleted) is stored again. *)
InsertProduct ==
    /\ version < MaxWrites
    /\ \E p \in SeedProducts :
         /\ \A q \in products : q.code # p.code
         /\ products' = products \cup {p}
    /\ version' = version + 1
    /\ UNCHANGED <<categories, variants, call, lookup, http, catcall, cathttp>>

Next ==
    \/ GetProductsWithFilters("r1", FilterInputs)
    \/ GetAllProducts("r1", FilterInputs)
    \/ Count("r1")
    \/ CountError("r1")
    \/ Fetch("r1")
    \/ FetchError("r1")
    \/ DeleteProduct

Spec == Init /\ [][Next]_vars

(* Two callers against the same store. *)
NextPair ==
    \/ \E r \in Requests : GetProductsWithFilters(r, PairFilterInputs)
    \/ \E r \in Requests : Count(r)
    \/ \E r \in Requests : Fetch(r)
    \/ DeleteProduct

(* The catalogue once every product has been given a category. *)
InitPair ==
    /\ products = {p \in SeedProducts : p.category_id # 0}
    /\ categories = SeedCategories
    /\ variants = SeedVariants
    /\ version = 0
    /\ call = [r \in Requests |-> IdleCall]
    /\ lookup = [r \in Requests |-> IdleLookup]
    /\ http = [r \in Requests |-> IdleHTTP]
    /\ catcall = [r \in Requests |-> IdleCategoryCall]
    /\ cathttp = [r \in Requests |-> IdleCategoryHTTP]

SpecPair == InitPair /\ [][NextPair]_vars

(***************************************************************************)
(* Product detail: ProductsRepository.GetProductByCode and                 *)
(* CatalogHandler.HandleGetDetails.                                        *)
(***************************************************************************)
ErrProductNotFound == "product not found"

(* gorm.ErrRecordNotFound, reported by First when no row matches. *)
ErrRecordNotFound == "record not found"

ProductCodeInputs == {"", "PROD001", "PROD002", "PROD004", "INVALID_CODE"}

(* api.ErrorResponse messages of HandleGetDetails. *)
MsgCodeRequired == "Product code is required"

MsgNotFound == "Product not found"

MsgInternal == "Internal server error"

(* Where("code = ?", code).First(&product): the matching rows; First takes
   the one with the lowest primary key. *)
RowsByCode(prods, code) == {p \in prods : p.code = code}

FirstRow(rows) == CHOOSE p \in rows : \A q \in rows : p.id <= q.id

(* Preload("Variants"): the variants of the product, in the order the
   store delivers them (the query has no ORDER BY). *)
VariantRows(vars_, p) == {v \in vars_ : v.product_id = p.id}

LoadedProduct(p, cats, vs) ==
    [id |-> p.id, code |-> p.code, price |-> p.price, category_id |-> p.category_id,
     Category |-> Preload(p, cats).Category, Variants |-> vs]

(* if errors.Is(err, gorm.ErrRecordNotFound) { return nil, ErrProductNotFound }
   return nil, err *)
TranslateLookupErrorPassThrough(e) == e

TranslateLookupError(e) == IF e = ErrRecordNotFound THEN ErrProductNotFound ELSE e

FailedLookup(code, e) ==
    [pc |-> "done", code |-> code, product |-> ZeroProduct, productNil |-> TRUE,
     err |-> TranslateLookupError(e), ver |-> version]

(* A faulty lookup, one that inserts the row it did not find. *)
LookupOrCreate(r, code) ==
    /\ lookup' = [lookup EXCEPT ![r] =
                    [pc |-> "done", code |-> code,
                     product |-> LoadedProduct([id |-> 10, code |-> code, price |-> 0,
                                                category_id |-> 0], categories, <<>>),
                     productNil |-> FALSE, err |-> ErrNone, ver |-> version]]
    /\ products' = IF RowsByCode(products, code) = {}
                   THEN products \cup {[id |-> 10, code |-> code, price |-> 0, category_id |-> 0]}
                   ELSE products
    /\ UNCHANGED <<categories, variants, version, call, catcall, cathttp>>

(* The queries of GetProductByCode succeed: the product with its category
   and variants, or ErrProductNotFound when no row has the code. *)
Lookup(r, code) ==
    /\ IF RowsByCode(products, code) = {}
       THEN lookup' = [lookup EXCEPT ![r] = FailedLookup(code, ErrRecordNotFound)]
       ELSE LET p == FirstRow(RowsByCode(products, code))
            IN \E vs \in Orderings(VariantRows(variants, p)) :
                 lookup' = [lookup EXCEPT ![r] =
                              [pc |-> "done", code |-> code,
                               product |-> LoadedProduct(p, categories, vs),
                               productNil |-> FALSE, err |-> ErrNone, ver |-> version]]
    /\ UNCHANGED <<products, categories, variants, version, call, catcall, cathttp>>

(* A query of GetProductByCode fails in the store: return nil, err. *)
LookupError(r, code) ==
    /\ lookup' = [lookup EXCEPT ![r] = FailedLookup(code, ErrStore)]
    /\ UNCHANGED <<products, categories, variants, version, call, catcall, cathttp>>

(* Direct calls of the repository. *)
GetProductByCode(r, C) ==
    /\ call[r].pc = "idle"
    /\ \E code \in C : Lookup(r, code)
    /\ UNCHANGED http

GetProductByCodeError(r, C) ==
    /\ call[r].pc = "idle"
    /\ \E code \in C : LookupError(r, code)
    /\ UNCHANGED http

(* decimal.Decimal.InexactFloat64: the float64 nearest to the decimal.  The
   prices here have two decimals and are far below 2^53 / 100, so distinct
   prices give distinct floats: a float64 is represented by the decimal (in
   cents) it is nearest to. *)
InexactFloat64(d) == [float64 |-> d]

(* price := v.Price; if price.IsZero() { price = product.Price } *)
EffectivePriceNoInherit(v, product) == v.price

EffectivePrice(v, product) == IF v.price = 0 THEN product.price ELSE v.price

mapProductDetailsResponse(product) ==
    [code |-> product.code,
     price |-> InexactFloat64(product.price),
     category |-> [code |-> product.Category.code, name |-> product.Category.name],
     variants |-> [i \in 1 .. Len(product.Variants) |->
                     [name |-> product.Variants[i].name,
                      sku |-> product.Variants[i].sku,
                      price |-> InexactFloat64(EffectivePrice(product.Variants[i], product))]]]

(* api.ErrorResponse(w, status, message) / api.OKResponse(w, response) *)
ErrorResponse(h, status, message) ==
    [h EXCEPT !.pc = "done", !.status = status, !.body = [NoBody EXCEPT !.error = message]]

(* The response HandleGetDetails writes for a finished lookup. *)
DetailsResponse(h, l) ==
    IF l.err # ErrNone
    THEN IF l.err = ErrProductNotFound
         THEN ErrorResponse(h, 404, MsgNotFound)
         ELSE ErrorResponse(h, 500, MsgInternal)
    ELSE [h EXCEPT !.pc = "done", !.status = 200,
                   !.body = [NoBody EXCEPT !.detail = mapProductDetailsResponse(l.product)]]

DetailsRequest(code) ==
    [endpoint |-> "detail", pc |-> "called", query |-> NoQuery, code |-> code,
     status |-> 0, body |-> NoBody]

(* A details handler that writes the inherited price back (mutant only). *)
HandleGetDetailsPersisting(r, C) ==
    /\ http[r].endpoint \in {"none", "detail"}
    /\ call[r].pc = "idle"
    /\ \E code \in C \ {""} :
         /\ RowsByCode(products, code) # {}
         /\ LET p == FirstRow(RowsByCode(products, code))
            IN /\ \E vs \in Orderings(VariantRows(variants, p)) :
                    lookup' = [lookup EXCEPT ![r] =
                                 [pc |-> "done", code |-> code,
                                  product |-> LoadedProduct(p, categories, vs),
                                  productNil |-> FALSE, err |-> ErrNone, ver |-> version]]
               /\ variants' = {IF v.product_id = p.id
                               THEN [v EXCEPT !.price = EffectivePrice(v, p)]
                               ELSE v : v \in variants}
         /\ http' = [http EXCEPT ![r] = DetailsResponse(DetailsRequest(code), lookup'[r])]
    /\ UNCHANGED <<products, categories, version, call, catcall, cathttp>>

(* GET /catalog/{code}: the whole handler. *)
HandleGetDetails(r, C) ==
    /\ http[r].endpoint \in {"none", "detail"}
    /\ call[r].pc = "idle"
    /\ \E code \in C :
         IF code = ""
         THEN /\ http' = [http EXCEPT ![r] = ErrorResponse(DetailsRequest(code), 400, MsgCodeRequired)]
              /\ UNCHANGED <<products, categories, variants, version, call, lookup, catcall, cathttp>>
         ELSE /\ Lookup(r, code)
              /\ http' = [http EXCEPT ![r] = DetailsResponse(DetailsRequest(code), lookup'[r])]

(* The same request when the store fails during the lookup. *)
HandleGetDetailsError(r, C) ==
    /\ http[r].endpoint \in {"none", "detail"}
    /\ call[r].pc = "idle"
    /\ \E code \in C \ {""} :
         /\ LookupError(r, code)
         /\ http' = [http EXCEPT ![r] = DetailsResponse(DetailsRequest(code), lookup'[r])]

(***************************************************************************)
(* Product list over HTTP: CatalogHandler.HandleGet.                       *)
(***************************************************************************)
DefaultOffset == 0
DefaultLimit == 10
LimitFloor == 1
LimitCeiling == 100

MsgPriceFormat == "Invalid priceLessThan format: must be a valid number"

MsgPriceNegative == "Invalid priceLessThan: must be a positive number"

DigitOf(ch) ==
    CASE ch = "0" -> 0 [] ch = "1" -> 1 [] ch = "2" -> 2 [] ch = "3" -> 3 [] ch = "4" -> 4
      [] ch = "5" -> 5 [] ch = "6" -> 6 [] ch = "7" -> 7 [] ch = "8" -> 8 [] ch = "9" -> 9
      [] OTHER -> -1

(* The value of a run of decimal digits appended to acc; -1 if a character
   is no digit. *)
RECURSIVE ParseDigits(_, _)
ParseDigits(s, acc) ==
    IF s = <<>> THEN acc
    ELSE IF DigitOf(Head(s)) < 0 THEN -1
    ELSE ParseDigits(Tail(s), acc * 10 + DigitOf(Head(s)))

Signed(s) == s # <<>> /\ Head(s) \in {"+", "-"}

Unsigned(s) == IF Signed(s) THEN Tail(s) ELSE s

(* strconv.Atoi: an optional sign and at least one digit. *)
Atoi(s) ==
    LET n == IF Unsigned(s) = <<>> THEN -1 ELSE ParseDigits(Unsigned(s), 0)
    IN IF n < 0 THEN [ok |-> FALSE, val |-> 0]
       ELSE [ok |-> TRUE, val |-> IF Head(s) = "-" THEN 0 - n ELSE n]

(* parseIntParam: the default for a missing or non-integer value. *)
parseIntParam(value, defaultValue) ==
    IF value # <<>> /\ Atoi(value).ok THEN Atoi(value).val ELSE defaultValue

(* if limit < 1 { limit = 1 }; if limit > 100 { limit = 100 } *)
ClampLimitCeilingOnly(limit) == IF limit > LimitCeiling THEN LimitCeiling ELSE limit

ClampLimit(limit) ==
    IF limit < LimitFloor THEN LimitFloor
    ELSE IF limit > LimitCeiling THEN LimitCeiling ELSE limit

(* Position of the decimal point in s, 0 if there is none. *)
PointAt(s) == IF \E i \in 1 .. Len(s) : s[i] = "." THEN CHOOSE i \in 1 .. Len(s) : s[i] = "." ELSE 0

(* decimal.NewFromString for texts with at most two decimals: an optional
   sign, digits, and optionally a point and one or two digits; val is the
   value in cents. *)
NewFromString(s) ==
    LET u == Unsigned(s)
        dot == PointAt(u)
        whole == IF dot = 0 THEN u ELSE SubSeq(u, 1, dot - 1)
        frac == IF dot = 0 THEN <<>> ELSE SubSeq(u, dot + 1, Len(u))
        w == IF whole = <<>> THEN -1 ELSE ParseDigits(whole, 0)
        f == CASE Len(frac) = 0 -> IF dot = 0 THEN 0 ELSE -1
               [] Len(frac) = 1 -> 10 * ParseDigits(frac, 0)
               [] Len(frac) = 2 -> ParseDigits(frac, 0)
        cents == 100 * w + f
    IN IF w < 0 \/ f < 0 THEN [ok |-> FALSE, val |-> 0]
       ELSE [ok |-> TRUE, val |-> IF Head(s) = "-" THEN 0 - cents ELSE cents]

(* Raw query values drawn by the clients. *)
OffsetTexts == {<<>>, <<"1">>, <<"-", "1">>, <<"x">>}

LimitTexts == {<<>>, <<"0">>, <<"-", "5">>, <<"2">>, <<"1", "0", "1">>, <<"a", "b", "c">>}

PriceTexts == {<<>>, <<"1", "0", ".", "0", "0">>, <<"0">>, <<"-", "5">>, <<"a", "b", "c">>}

QueryInputs ==
    { [offset |-> o, limit |-> l, category |-> c, priceLessThan |-> p] :
        o \in OffsetTexts, l \in LimitTexts, c \in {"", "CLOTHING"}, p \in PriceTexts }

(* The price filter the handler derives: rejected with a message, or the
   pointer handed to the repository. *)
ParsePriceIgnoringErrors(text) ==
    IF text = <<>> \/ ~NewFromString(text).ok
    THEN [reject |-> "", price |-> NoPrice]
    ELSE [reject |-> "", price |-> PriceOf(NewFromString(text).val)]

ParsePrice(text) ==
    IF text = <<>> THEN [reject |-> "", price |-> NoPrice]
    ELSE IF ~NewFromString(text).ok THEN [reject |-> MsgPriceFormat, price |-> NoPrice]
    ELSE IF NewFromString(text).val < 0 THEN [reject |-> MsgPriceNegative, price |-> NoPrice]
    ELSE [reject |-> "", price |-> PriceOf(NewFromString(text).val)]

(* filters := models.ProductFilters{...} as built by HandleGet. *)
BuildFilters(q) ==
    ProductFilters(parseIntParam(q.offset, DefaultOffset),
                   ClampLimit(parseIntParam(q.limit, DefaultLimit)),
                   q.category,
                   ParsePrice(q.priceLessThan).price)

mapProductsResponse(prods, total) ==
    [products |-> [i \in 1 .. Len(prods) |->
                     [code |-> prods[i].code,
                      price |-> InexactFloat64(prods[i].price),
                      category |-> [code |-> prods[i].Category.code,
                                    name |-> prods[i].Category.name]]],
     total |-> total]

ListRequest(q) ==
    [endpoint |-> "list", pc |-> "called", query |-> q, code |-> "",
     status |-> 0, body |-> NoBody]

(* The status HandleGet answers with when the repository returns an error. *)
ListErrorStatusByKind(e) == IF e = ErrInvalidPagination THEN 400 ELSE 500

ListErrorStatus(e) == 500

(* GET /catalog up to the repository call: parse, validate the price,
   build the filters, enter GetProductsWithFilters. *)
HandleGet(r, Q) ==
    /\ http[r].pc = "idle"
    /\ lookup[r].pc = "idle"
    /\ \E q \in Q :
         IF ParsePrice(q.priceLessThan).reject # ""
         THEN /\ http' = [http EXCEPT ![r] =
                            ErrorResponse(ListRequest(q), 400, ParsePrice(q.priceLessThan).reject)]
              /\ UNCHANGED <<products, categories, variants, version, call, lookup, catcall, cathttp>>
         ELSE /\ Begin(r, "GetProductsWithFilters", BuildFilters(q))
              /\ http' = [http EXCEPT ![r] = ListRequest(q)]

(* GET /catalog once the repository call has returned. *)
HandleGetRespond(r) ==
    /\ http[r].endpoint = "list"
    /\ http[r].pc = "called"
    /\ call[r].pc = "done"
    /\ http' = [http EXCEPT ![r] =
                  IF call[r].err # ErrNone
                  THEN ErrorResponse(http[r], ListErrorStatus(call[r].err), call[r].err)
                  ELSE [http[r] EXCEPT !.pc = "done", !.status = 200,
                          !.body = [NoBody EXCEPT
                                      !.products = mapProductsResponse(call[r].products, call[r].total).products,
                                      !.total = call[r].total]]]
    /\ UNCHANGED <<products, categories, variants, version, call, lookup, catcall, cathttp>>

NextHTTP ==
    \/ HandleGet("r1", QueryInputs)
    \/ Count("r1")
    \/ CountError("r1")
    \/ Fetch("r1")
    \/ FetchError("r1")
    \/ HandleGetRespond("r1")
    \/ HandleGetDetails("r1", ProductCodeInputs)
    \/ HandleGetDetailsError("r1", ProductCodeInputs)
    \/ DeleteProduct

SpecHTTP == Init /\ [][NextHTTP]_vars

(* Direct repository calls: listings by r1, lookups by both requests. *)
AllProductsInputs ==
    { ProductFilters(o, l, "", NoPrice) : o \in 0 .. PairMaxOffset, l \in 1 .. PairMaxLimit }

NextDetail ==
    \/ GetProductsWithFilters("r1", PairFilterInputs)
    \/ GetAllProducts("r1", AllProductsInputs)
    \/ Count("r1")
    \/ CountError("r1")
    \/ Fetch("r1")
    \/ FetchError("r1")
    \/ \E r \in Requests : GetProductByCode(r, ProductCodeInputs)
    \/ \E r \in Requests : GetProductByCodeError(r, ProductCodeInputs)
    \/ DeleteProduct

SpecDetail == Init /\ [][NextDetail]_vars

(***************************************************************************)
(* Categories: CategoriesRepository.CreateCategory / GetAllCategories and  *)
(* CategoriesHandler.HandleCreate.                                         *)
(***************************************************************************)
ErrInvalidCategory == "invalid category data"

ErrCategoryCodeExists == "category code already exists"

(* The driver's error for a violated unique index (SQLSTATE 23505). *)
ErrDuplicateKey == "duplicate key value violates unique constraint"

MaxCodeLength == 50
MaxNameLength == 255

MsgInvalidBody == "Invalid request body"

MsgRequired == "Code and name are required"

MsgWhitespace == "Code and name cannot be empty or whitespace only"

MsgCodeTooLong == "Code too long: maximum 50 characters"

MsgNameTooLong == "Name too long: maximum 255 characters"

MsgCodeExists == "Category code already exists"

(* strings.TrimSpace on a text. *)
IsSpace(ch) == ch \in {" ", "\t", "\n", "\r"}

RECURSIVE TrimLeft(_)
TrimLeft(t) ==
    IF t = <<>> THEN <<>>
    ELSE IF IsSpace(Head(t)) THEN TrimLeft(Tail(t)) ELSE t

RECURSIVE TrimRight(_)
TrimRight(t) ==
    IF t = <<>> THEN <<>>
    ELSE IF IsSpace(t[Len(t)]) THEN TrimRight(SubSeq(t, 1, Len(t) - 1)) ELSE t

TrimSpace(t) == TrimRight(TrimLeft(t))

(* The Go string a text stands for, as stored in a column. *)
RECURSIVE StringOf(_)
StringOf(t) == IF t = <<>> THEN "" ELSE Head(t) \o StringOf(Tail(t))

(* len(s): the number of bytes of the UTF-8 encoding of a text.  The
   character "e'" stands for U+00E9, which takes two bytes. *)
ByteWidth(ch) == IF ch = "e'" THEN 2 ELSE 1

ByteLen(t) == Len(t) + Cardinality({i \in 1 .. Len(t) : ByteWidth(t[i]) = 2})

(* Texts sent by the callers. *)
TextEL == <<"E", "L">>

TextCLOTHING == <<"C", "L", "O", "T", "H", "I", "N", "G">>

TextName == <<"E", "l">>

LongCode == [i \in 1 .. MaxCodeLength + 1 |-> "X"]

LongName == [i \in 1 .. MaxNameLength + 1 |-> "n"]

(* A code of 26 accented characters: within 50 characters, 52 bytes. *)
AccentedCode == [i \in 1 .. (MaxCodeLength \div 2) + 1 |-> "e'"]

CodeTexts == {<<>>, <<" ">>, TextEL, TextCLOTHING}

NameTexts == {<<>>, <<" ", "\t">>, TextName}

CategoryInputs ==
    {NilCategory} \cup {CategoryOf(c, n) : c \in CodeTexts, n \in NameTexts}

(* category == nil, or a code or name that trims to "". *)
InvalidCategoryNilOnly(c) == c.nil

InvalidCategory(c) ==
    \/ c.nil
    \/ TrimSpace(c.Code) = <<>>
    \/ TrimSpace(c.Name) = <<>>

(* The unique index on categories.code rejects a second row with a code. *)
UniqueViolationNever(cats, code) == FALSE

UniqueViolation(cats, code) == \E c \in cats : c.code = code

(* The primary key the store assigns to an inserted row: never zero, never
   one of a row stored before. *)
NextID(ver) == Cardinality(SeedCategories) + ver + 1

(* strings.Contains(err.Error(), "duplicate") || ... "unique constraint":
   return ErrCategoryCodeExists; any other error is returned as it is. *)
TranslateCreateErrorPassThrough(e) == e

TranslateCreateError(e) == IF e = ErrDuplicateKey THEN ErrCategoryCodeExists ELSE e

FailedCreate(c, e) == [c EXCEPT !.pc = "done", !.err = TranslateCreateError(e)]

(* Entry of CreateCategory: the two validations. *)
BeginCreate(r, c) ==
    /\ catcall[r].pc = "idle"
    /\ LET k == [IdleCategoryCall EXCEPT !.op = "CreateCategory", !.category = c]
       IN catcall' = [catcall EXCEPT ![r] =
                        IF InvalidCategory(c)
                        THEN [k EXCEPT !.pc = "done", !.err = ErrInvalidCategory]
                        ELSE [k EXCEPT !.pc = "create"]]
    /\ UNCHANGED <<products, categories, variants, version, call, lookup, http>>

(* A direct call of the repository. *)
CreateCategory(r, A) ==
    /\ cathttp[r].pc = "idle"
    /\ \E c \in A : BeginCreate(r, c)
    /\ UNCHANGED cathttp

(* An INSERT that reports success and an ID without storing the row. *)
CreateUnsaved(r) ==
    /\ catcall[r].pc = "create"
    /\ catcall' = [catcall EXCEPT ![r] =
                     [catcall[r] EXCEPT !.pc = "done", !.ID = NextID(version),
                                        !.ver = version]]
    /\ UNCHANGED <<products, categories, variants, version, call, lookup, http, cathttp>>

(* r.db.Create(category): one INSERT, which the unique index on the code
   may reject; on success the row is stored and category.ID is set. *)
Create(r) ==
    /\ catcall[r].pc = "create"
    /\ LET k == catcall[r]
           code == StringOf(k.category.Code)
       IN IF UniqueViolation(categories, code)
          THEN /\ catcall' = [catcall EXCEPT ![r] =
                                FailedCreate([k EXCEPT !.ver = version], ErrDuplicateKey)]
               /\ UNCHANGED <<categories, version>>
          ELSE /\ categories' = categories \cup
                                  {[id |-> NextID(version), code |-> code,
                                    name |-> StringOf(k.category.Name)]}
               /\ version' = version + 1
               /\ catcall' = [catcall EXCEPT ![r] =
                                [k EXCEPT !.pc = "done", !.ID = NextID(version),
                                          !.ver = version + 1]]
    /\ UNCHANGED <<products, variants, call, lookup, http, cathttp>>

(* r.db.Create(category) fails for another reason: return err. *)
CreateError(r) ==
    /\ catcall[r].pc = "create"
    /\ catcall' = [catcall EXCEPT ![r] =
                     FailedCreate([catcall[r] EXCEPT !.ver = version], ErrStore)]
    /\ UNCHANGED <<products, categories, variants, version, call, lookup, http, cathttp>>

(* r.db.Find(&categories): every stored category, in the order the store
   delivers them. *)
GetAllCategories(r) ==
    /\ catcall[r].pc = "idle"
    /\ cathttp[r].pc = "idle"
    /\ \E rows \in Orderings(categories) :
         catcall' = [catcall EXCEPT ![r] =
                       [IdleCategoryCall EXCEPT !.op = "GetAllCategories", !.pc = "done",
                                                !.categories = rows, !.categoriesNil = FALSE,
                                                !.ver = version]]
    /\ UNCHANGED <<products, categories, variants, version, call, lookup, http, cathttp>>

(* Find fails: return nil, err. *)
GetAllCategoriesError(r) ==
    /\ catcall[r].pc = "idle"
    /\ cathttp[r].pc = "idle"
    /\ catcall' = [catcall EXCEPT ![r] =
                     [IdleCategoryCall EXCEPT !.op = "GetAllCategories", !.pc = "done",
                                              !.err = ErrStore, !.ver = version]]
    /\ UNCHANGED <<products, categories, variants, version, call, lookup, http, cathttp>>

(* db.Where("code = ?", code).Delete(&Category{}); products.category_id
   REFERENCES categories(id), so a category a product refers to stays. *)
DeleteCategory ==
    /\ \E c \in categories :
         /\ \A p \in products : p.category_id # c.id
         /\ categories' = categories \ {c}
    /\ version' = version + 1
    /\ UNCHANGED <<products, variants, call, lookup, http, catcall, cathttp>>

NextCategories ==
    \/ \E r \in Requests : CreateCategory(r, CategoryInputs)
    \/ \E r \in Requests : Create(r)
    \/ \E r \in Requests : CreateError(r)
    \/ \E r \in Requests : GetAllCategories(r)
    \/ \E r \in Requests : GetAllCategoriesError(r)
    \/ DeleteCategory

SpecCategories == Init /\ [][NextCategories]_vars

(***************************************************************************)
(* POST /categories: CategoriesHandler.HandleCreate.                       *)
(***************************************************************************)
(* A body json.Decode rejects, and the bodies it decodes. *)
UndecodableBody == [decodable |-> FALSE, req |-> CategoryOf(<<>>, <<>>)]

RequestBodies ==
    {UndecodableBody} \cup
    {[decodable |-> TRUE, req |-> CategoryOf(c, n)] :
        c \in CodeTexts \cup {LongCode, AccentedCode}, n \in NameTexts \cup {LongName}}

(* The checks of HandleCreate before the repository call: the message of
   the 400 response, or "" when the request passes. *)
ValidateCreatePresenceOnly(b) ==
    IF ~b.decodable THEN MsgInvalidBody
    ELSE IF b.req.Code = <<>> \/ b.req.Name = <<>> THEN MsgRequired
    ELSE ""

ValidateCreate(b) ==
    IF ~b.decodable THEN MsgInvalidBody
    ELSE IF b.req.Code = <<>> \/ b.req.Name = <<>> THEN MsgRequired
    ELSE IF TrimSpace(b.req.Code) = <<>> \/ TrimSpace(b.req.Name) = <<>> THEN MsgWhitespace
    ELSE IF ByteLen(b.req.Code) > MaxCodeLength THEN MsgCodeTooLong
    ELSE IF ByteLen(b.req.Name) > MaxNameLength THEN MsgNameTooLong
    ELSE ""

(* api.CreatedResponse: 201 Created. *)
StatusCreated == 201

(* The status and error message for an error of CreateCategory. *)
CreateErrorStatus(e) ==
    IF e = ErrCategoryCodeExists THEN 409
    ELSE IF e = ErrInvalidCategory THEN 400
    ELSE 500

CreateErrorMessage(e) == IF e = ErrCategoryCodeExists THEN MsgCodeExists ELSE e

CategoryRequest(b) ==
    [pc |-> "called", decodable |-> b.decodable, req |-> b.req,
     status |-> 0, body |-> NoCategoryBody]

CategoryErrorResponse(h, status, message) ==
    [h EXCEPT !.pc = "done", !.status = status,
              !.body = [NoCategoryBody EXCEPT !.error = message]]

(* POST /categories up to the repository call. *)
HandleCreate(r, B) ==
    /\ cathttp[r].pc = "idle"
    /\ \E b \in B :
         IF ValidateCreate(b) # ""
         THEN /\ catcall[r].pc = "idle"
              /\ cathttp' = [cathttp EXCEPT ![r] =
                               CategoryErrorResponse(CategoryRequest(b), 400, ValidateCreate(b))]
              /\ UNCHANGED <<products, categories, variants, version, call, lookup, http,
                             catcall>>
         ELSE /\ BeginCreate(r, b.req)
              /\ cathttp' = [cathttp EXCEPT ![r] = CategoryRequest(b)]

(* POST /categories once CreateCategory has returned. *)
HandleCreateRespond(r) ==
    /\ cathttp[r].pc = "called"
    /\ catcall[r].pc = "done"
    /\ LET k == catcall[r]
       IN cathttp' = [cathttp EXCEPT ![r] =
                        IF k.err # ErrNone
                        THEN CategoryErrorResponse(cathttp[r], CreateErrorStatus(k.err),
                                                   CreateErrorMessage(k.err))
                        ELSE [cathttp[r] EXCEPT
                                !.pc = "done", !.status = StatusCreated,
                                !.body = [NoCategoryBody EXCEPT
                                            !.code = StringOf(k.category.Code),
                                            !.name = StringOf(k.category.Name)]]]
    /\ UNCHANGED <<products, categories, variants, version, call, lookup, http, catcall>>

NextCategoriesHTTP ==
    \/ \E r \in Requests : HandleCreate(r, RequestBodies)
    \/ \E r \in Requests : Create(r)
    \/ \E r \in Requests : CreateError(r)
    \/ \E r \in Requests : HandleCreateRespond(r)
    \/ DeleteCategory

SpecCategoriesHTTP == Init /\ [][NextCategoriesHTTP]_vars

(***************************************************************************)
(* Listings by both requests while r2 creates the category EL.             *)
(***************************************************************************)
ListingAfterCreateInputs ==
    { ProductFilters(o, l, c, p) :
        o \in 0 .. PairMaxOffset, l \in 1 .. PairMaxLimit,
        c \in {"CLOTHING", "EL"}, p \in {NoPrice, PriceOf(1000)} }

NextListingAfterCreate ==
    \/ \E r \in Requests : GetProductsWithFilters(r, ListingAfterCreateInputs)
    \/ \E r \in Requests : Count(r)
    \/ \E r \in Requests : Fetch(r)
    \/ CreateCategory("r2", {CategoryOf(TextEL, TextName)})
    \/ Create("r2")

SpecListingAfterCreate == Init /\ [][NextListingAfterCreate]_vars

(***************************************************************************)
(* Concurrent list and detail requests against a store nobody writes to.   *)
(***************************************************************************)
ConcurrentFilterInputs ==
    { ProductFilters(o, l, c, NoPrice) :
        o \in 0 .. PairMaxOffset, l \in 1 .. PairMaxLimit, c \in {"", "CLOTHING", "SHOES"} }

NextConcurrentReads ==
    \/ \E r \in Requests : GetProductsWithFilters(r, ConcurrentFilterInputs)
    \/ \E r \in Requests : Count(r)
    \/ \E r \in Requests : Fetch(r)
    \/ \E r \in Requests : GetProductByCode(r, ProductCodeInputs \ {""})

SpecConcurrentReads == Init /\ [][NextConcurrentReads]_vars

(***************************************************************************)
(* A listing by r1 while other sessions delete and insert products.        *)
(***************************************************************************)
NextWrites ==
    \/ GetProductsWithFilters("r1", PairFilterInputs)
    \/ GetAllProducts("r1", AllProductsInputs)
    \/ Count("r1")
    \/ Fetch("r1")
    \/ DeleteProduct
    \/ InsertProduct

SpecWrites == InitPair /\ [][NextWrites]_vars

(***************************************************************************)
(* GetAllProducts by r1 beside GetProductsWithFilters without filters by   *)
(* r2, over the catalogue states the deletions lead to.                    *)
(***************************************************************************)
UnfilteredInputs ==
    { ProductFilters(o, l, "", NoPrice) : o \in -1 .. PairMaxOffset, l \in 0 .. PairMaxLimit }

NextUnfiltered ==
    \/ GetAllProducts("r1", UnfilteredInputs)
    \/ GetProductsWithFilters("r2", UnfilteredInputs)
    \/ \E r \in Requests : Count(r)
    \/ \E r \in Requests : Fetch(r)
    \/ DeleteProduct

SpecUnfiltered == Init /\ [][NextUnfiltered]_vars

(***************************************************************************)
(* Vocabulary of the properties.                                           *)
(***************************************************************************)
Succeeded(c) == c.pc = "done" /\ c.err = ErrNone

(* Both queries of the call read the store as it is now. *)
ReadCurrentStore(c) == c.cver = version /\ c.fver = version

(* Stored products of the category with the given code. *)
InCategory(code) ==
    {p \in products : \E c \in categories : c.id = p.category_id /\ c.code = code}

(* Stored products priced strictly below the threshold. *)
PricedBelow(threshold) == {p \in products : p.price < threshold}

(* Stored products that satisfy a filter set. *)
Satisfying(f) ==
    (IF f.CategoryCode # "" THEN InCategory(f.CategoryCode) ELSE products)
        \cap (IF f.PriceLessThan.set THEN PricedBelow(f.PriceLessThan.val) ELSE products)

(* Identifiers of the products of a returned page. *)
PageIds(c) == {c.products[i].id : i \in 1 .. Len(c.products)}

(***************************************************************************)
(* C1: a call handed Offset < 0 or Limit <= 0, whatever its other filters, *)
(* returns ErrInvalidPagination with a nil product list and total 0, and   *)
(* has issued no query to the store; this holds for GetProductsWithFilters *)
(* and for GetAllProducts.                                                 *)
(***************************************************************************)
C1_InvalidPaginationFailsFast ==
    \A r \in Requests :
        LET c == call[r]
        IN (c.op # "none" /\ (c.filters.Offset < 0 \/ c.filters.Limit <= 0)) =>
              /\ c.pc = "done"
              /\ c.err = ErrInvalidPagination
              /\ c.productsNil
              /\ c.products = <<>>
              /\ c.total = 0
              /\ c.reads = 0

C1_Witness ==
    /\ call["r1"].op = "GetProductsWithFilters"
    /\ call["r1"].pc = "done"
    /\ call["r1"].filters.Offset < 0
    /\ call["r1"].filters.Limit > 0
    /\ call["r1"].filters.CategoryCode = "CLOTHING"
    /\ call["r1"].filters.PriceLessThan.set
    /\ call["r1"].err = ErrInvalidPagination

(***************************************************************************)
(* C2: two successful calls with the same CategoryCode and PriceLessThan   *)
(* whose COUNT queries read the same catalogue return the same total,      *)
(* whatever their Offset and Limit.                                        *)
(***************************************************************************)
C2_TotalIndependentOfWindow ==
    \A r1, r2 \in Requests :
        LET a == call[r1]
            b == call[r2]
        IN (/\ Succeeded(a) /\ Succeeded(b)
            /\ a.filters.CategoryCode = b.filters.CategoryCode
            /\ a.filters.PriceLessThan = b.filters.PriceLessThan
            /\ a.cver = b.cver) => a.total = b.total

C2_Witness ==
    /\ Succeeded(call["r1"]) /\ Succeeded(call["r2"])
    /\ call["r1"].filters.CategoryCode = call["r2"].filters.CategoryCode
    /\ call["r1"].filters.PriceLessThan = call["r2"].filters.PriceLessThan
    /\ call["r1"].cver = call["r2"].cver
    /\ call["r1"].filters.Offset # call["r2"].filters.Offset
    /\ call["r1"].filters.Limit # call["r2"].filters.Limit
    /\ Len(call["r1"].products) # Len(call["r2"].products)
    /\ call["r1"].total = 2

(***************************************************************************)
(* C3: the total a call obtains is the exact number of stored products     *)
(* that satisfy its filters (category code equal to CategoryCode when it   *)
(* is non-empty, price strictly below PriceLessThan when present), counted *)
(* before the window is applied; a category code that no product has       *)
(* gives an empty page and total 0.                                        *)
(***************************************************************************)
C3_TotalIsExactMatchCount ==
    \A r \in Requests :
        LET c == call[r]
        IN /\ (c.pc = "fetch" /\ c.cver = version) =>
                  c.total = Cardinality(Satisfying(c.filters))
           /\ (Succeeded(c) /\ ReadCurrentStore(c)) =>
                  /\ c.total = Cardinality(Satisfying(c.filters))
                  /\ (c.filters.CategoryCode # "" /\ InCategory(c.filters.CategoryCode) = {}) =>
                        (c.total = 0 /\ c.products = <<>>)

C3_Witness ==
    /\ Succeeded(call["r1"])
    /\ ReadCurrentStore(call["r1"])
    /\ call["r1"].op = "GetProductsWithFilters"
    /\ call["r1"].filters.CategoryCode = "CLOTHING"
    /\ call["r1"].filters.PriceLessThan = NoPrice
    /\ call["r1"].filters.Limit = 1
    /\ call["r1"].total = 2
    /\ Len(call["r1"].products) = 1

(***************************************************************************)
(* C4: a successful GetProductsWithFilters or GetAllProducts returns a     *)
(* page of at most Limit products.                                         *)
(***************************************************************************)
C4_PageAtMostLimit ==
    \A r \in Requests :
        Succeeded(call[r]) => Len(call[r].products) <= call[r].filters.Limit

C4_Witness ==
    /\ Succeeded(call["r1"])
    /\ call["r1"].op = "GetAllProducts"
    /\ call["r1"].filters.Limit = 1
    /\ Len(call["r1"].products) = 1
    /\ call["r1"].total > 1

(***************************************************************************)
(* C5: when no write falls between the COUNT and the SELECT of a           *)
(* successful call, the page holds exactly                                 *)
(* min(Limit, max(0, total - Offset)) products, so total >= page length,   *)
(* and with Offset = 0 and Limit >= total the page length equals total.    *)
(***************************************************************************)
C5_PageLengthFormula ==
    \A r \in Requests :
        LET c == call[r]
        IN (Succeeded(c) /\ c.cver = c.fver) =>
              /\ Len(c.products) = Min(c.filters.Limit, Max(0, c.total - c.filters.Offset))
              /\ c.total >= Len(c.products)
              /\ (c.filters.Offset = 0 /\ c.filters.Limit >= c.total) =>
                    Len(c.products) = c.total

C5_Witness ==
    /\ Succeeded(call["r1"])
    /\ call["r1"].cver = call["r1"].fver
    /\ call["r1"].filters.Offset = 1
    /\ call["r1"].filters.Limit = 2
    /\ call["r1"].total = 2
    /\ Len(call["r1"].products) = 1

(***************************************************************************)
(* C6: with Limit > 0 and Offset at or beyond the number of matching       *)
(* products, a listing that the store does not fail is not an error: it    *)
(* returns an empty (non-nil) page and the full number of matching         *)
(* products as total, not zero.                                            *)
(***************************************************************************)
C6_OffsetBeyondTotal ==
    \A r \in Requests :
        LET c == call[r]
        IN (/\ c.pc = "done"
            /\ c.err # ErrStore
            /\ ReadCurrentStore(c)
            /\ c.filters.Limit > 0
            /\ c.filters.Offset >= Cardinality(Satisfying(c.filters))) =>
              /\ c.err = ErrNone
              /\ c.products = <<>>
              /\ ~c.productsNil
              /\ c.total = Cardinality(Satisfying(c.filters))

C6_Witness ==
    /\ call["r1"].pc = "done"
    /\ call["r1"].op = "GetAllProducts"
    /\ call["r1"].err = ErrNone
    /\ ReadCurrentStore(call["r1"])
    /\ call["r1"].filters.Offset = 2
    /\ call["r1"].filters.Limit > 0
    /\ Cardinality(products) = 2
    /\ call["r1"].total = 2
    /\ call["r1"].products = <<>>

(***************************************************************************)
(* C7: with a non-empty CategoryCode, every product of a returned page     *)
(* carries a category whose code is exactly CategoryCode; a code differing *)
(* in case or being only a prefix of a stored code selects nothing.        *)
(***************************************************************************)
C7_CategoryExactMatch ==
    \A r \in Requests :
        LET c == call[r]
        IN (Succeeded(c) /\ c.filters.CategoryCode # "") =>
              /\ \A i \in 1 .. Len(c.products) :
                     /\ c.products[i].Category.code = c.filters.CategoryCode
                     /\ c.products[i].category_id = c.products[i].Category.id
              /\ (c.filters.CategoryCode \in {"clothing", "CLOTH"}) => c.products = <<>>

C7_Witness ==
    /\ Succeeded(call["r1"])
    /\ call["r1"].filters.CategoryCode = "CLOTHING"
    /\ call["r1"].filters.Offset = 0
    /\ Len(call["r1"].products) = 1
    /\ \E p \in products : p.category_id = 2
    /\ \E p \in products : p.category_id = 0

(***************************************************************************)
(* C8: with PriceLessThan present, every product of a returned page is     *)
(* priced strictly below it, and a stored product priced exactly at the    *)
(* threshold is counted neither in the page nor in the total.              *)
(***************************************************************************)
C8_PriceStrictlyBelow ==
    \A r \in Requests :
        LET c == call[r]
            t == c.filters.PriceLessThan.val
        IN (Succeeded(c) /\ c.filters.PriceLessThan.set) =>
              /\ \A i \in 1 .. Len(c.products) : c.products[i].price < t
              /\ ReadCurrentStore(c) =>
                    c.total <= Cardinality({p \in products : p.price # t /\ p.price <= t})

C8_Witness ==
    /\ Succeeded(call["r1"])
    /\ ReadCurrentStore(call["r1"])
    /\ call["r1"].filters.PriceLessThan = PriceOf(1000)
    /\ call["r1"].filters.CategoryCode = ""
    /\ \E p \in products : p.price = 1000
    /\ \E p \in products : p.price > 1000
    /\ call["r1"].total = 2
    /\ Len(call["r1"].products) = 2

(***************************************************************************)
(* C9: with both CategoryCode and PriceLessThan supplied, the matching     *)
(* products are the intersection of those matching the category alone and  *)
(* those matching the price alone: the total is the size of the            *)
(* intersection, the page lies inside it, and a window covering the whole  *)
(* result returns exactly it.                                              *)
(***************************************************************************)
C9_FiltersComposeAsAnd ==
    \A r \in Requests :
        LET c == call[r]
            both == InCategory(c.filters.CategoryCode) \cap PricedBelow(c.filters.PriceLessThan.val)
        IN (/\ Succeeded(c)
            /\ ReadCurrentStore(c)
            /\ c.filters.CategoryCode # ""
            /\ c.filters.PriceLessThan.set) =>
              /\ c.total = Cardinality(both)
              /\ PageIds(c) \subseteq {p.id : p \in both}
              /\ (c.filters.Offset = 0 /\ c.filters.Limit >= c.total) =>
                    PageIds(c) = {p.id : p \in both}

C9_Witness ==
    /\ Succeeded(call["r1"])
    /\ ReadCurrentStore(call["r1"])
    /\ call["r1"].filters.CategoryCode = "CLOTHING"
    /\ call["r1"].filters.PriceLessThan = PriceOf(1000)
    /\ Cardinality(InCategory("CLOTHING")) = 2
    /\ Cardinality(PricedBelow(1000)) = 2
    /\ call["r1"].total = 1
    /\ PageIds(call["r1"]) = {4}

(***************************************************************************)
(* C10: two calls with identical filters, with no write to the store       *)
(* between any of their queries, return the same total and the same page   *)
(* contents in the same order.                                             *)
(***************************************************************************)
C10_RepeatedCallIdentical ==
    \A r1, r2 \in Requests :
        LET a == call[r1]
            b == call[r2]
        IN (/\ Succeeded(a) /\ Succeeded(b)
            /\ a.filters = b.filters
            /\ a.cver = a.fver /\ a.fver = b.cver /\ b.cver = b.fver) =>
              /\ a.total = b.total
              /\ a.products = b.products

(***************************************************************************)
(* C11: for a fixed catalogue and filter set the pages are windows of one  *)
(* fixed order: the page at Offset 0 and the next page (Offset = Limit)    *)
(* of two calls that read the same catalogue share no product and skip     *)
(* none, so together they hold min(total, 2 * Limit) distinct products.    *)
(***************************************************************************)
C11_ConsecutivePagesPartition ==
    \A r1, r2 \in Requests :
        LET a == call[r1]
            b == call[r2]
        IN (/\ Succeeded(a) /\ Succeeded(b)
            /\ a.filters.CategoryCode = b.filters.CategoryCode
            /\ a.filters.PriceLessThan = b.filters.PriceLessThan
            /\ a.filters.Limit = b.filters.Limit
            /\ a.filters.Offset = 0
            /\ b.filters.Offset = a.filters.Limit
            /\ a.cver = a.fver /\ a.fver = b.cver /\ b.cver = b.fver) =>
              /\ PageIds(a) \cap PageIds(b) = {}
              /\ Cardinality(PageIds(a) \cup PageIds(b)) = Min(a.total, 2 * a.filters.Limit)

(***************************************************************************)
(* C12: in a product detail response each variant's price is the float of  *)
(* the variant's own stored price when that is non-zero, and of the        *)
(* product's price when the stored price is zero / absent (PROD001 at      *)
(* 12.00 with a variant priced 0 gives 12.00 for that variant).            *)
(***************************************************************************)
C12_VariantPriceInheritance ==
    \A r \in Requests :
        LET h == http[r]
            p == lookup[r].product
        IN (h.endpoint = "detail" /\ h.status = 200) =>
              /\ Len(h.body.detail.variants) = Len(p.Variants)
              /\ \A i \in 1 .. Len(p.Variants) :
                     /\ p.Variants[i].price # 0 =>
                            h.body.detail.variants[i].price = [float64 |-> p.Variants[i].price]
                     /\ p.Variants[i].price = 0 =>
                            h.body.detail.variants[i].price = [float64 |-> p.price]

C12_Witness ==
    /\ http["r1"].endpoint = "detail"
    /\ http["r1"].status = 200
    /\ http["r1"].body.detail.code = "PROD001"
    /\ http["r1"].body.detail.price = [float64 |-> 1200]
    /\ \E i, j \in 1 .. Len(http["r1"].body.detail.variants) :
         /\ lookup["r1"].product.Variants[i].price = 0
         /\ http["r1"].body.detail.variants[i].price = [float64 |-> 1200]
         /\ lookup["r1"].product.Variants[j].price = 1500
         /\ http["r1"].body.detail.variants[j].price = [float64 |-> 1500]

(***************************************************************************)
(* C13: detail requests never change stored data: whatever detail          *)
(* responses have been produced, every stored variant and product is a     *)
(* seed row unchanged, so a variant stored with a zero / absent price      *)
(* still has it and no inherited price was persisted.                      *)
(***************************************************************************)
C13_DetailLeavesStoreUnchanged ==
    /\ variants = SeedVariants
    /\ products \subseteq SeedProducts
    /\ \A r \in Requests :
         (http[r].endpoint = "detail" /\ http[r].status = 200) =>
            \A i \in 1 .. Len(lookup[r].product.Variants) :
                \E v \in variants :
                    /\ v.id = lookup[r].product.Variants[i].id
                    /\ v.price = lookup[r].product.Variants[i].price

C13_Witness ==
    /\ http["r1"].endpoint = "detail"
    /\ http["r1"].status = 200
    /\ \E i \in 1 .. Len(http["r1"].body.detail.variants) :
         /\ http["r1"].body.detail.variants[i].sku = "SKU001A"
         /\ http["r1"].body.detail.variants[i].price = [float64 |-> 1200]
    /\ \E v \in variants : v.sku = "SKU001A" /\ v.price = 0
    /\ \E p \in products : p.code = "PROD001" /\ p.price = 1200

(***************************************************************************)
(* C14: a lookup of a code no stored product has returns a nil product and *)
(* ErrProductNotFound, an error other than a store failure; over HTTP that *)
(* case answers 404 with the message "Product not found", any other lookup *)
(* failure 500, and an existing code 200 with that product's code.         *)
(***************************************************************************)
C14_NotFoundDistinguishable ==
    \A r \in Requests :
        LET l == lookup[r]
            h == http[r]
        IN (h.endpoint = "detail" /\ h.pc = "done" /\ h.code # "") =>
              /\ l.pc = "done" /\ l.code = h.code
              /\ ErrProductNotFound # ErrStore
              /\ (l.err # ErrStore /\ l.ver = version) =>
                    /\ (\A p \in products : p.code # h.code) =>
                          /\ l.err = ErrProductNotFound
                          /\ l.productNil
                          /\ h.status = 404
                          /\ h.body.error = "Product not found"
                    /\ (\E p \in products : p.code = h.code) =>
                          /\ l.err = ErrNone
                          /\ ~l.productNil
                          /\ h.status = 200
                          /\ h.body.detail.code = h.code
              /\ l.err = ErrStore => (l.productNil /\ h.status = 500)
              /\ h.status = 404 <=> l.err = ErrProductNotFound

C14_Witness ==
    /\ http["r1"].endpoint = "detail"
    /\ http["r1"].code = "INVALID_CODE"
    /\ http["r1"].status = 404
    /\ lookup["r1"].err = ErrProductNotFound
    /\ lookup["r1"].productNil

(***************************************************************************)
(* C15: a listing that met a store failure returns the store's error (not  *)
(* ErrInvalidPagination) with a nil product list and total 0, also when    *)
(* the count succeeded and only the page fetch failed; the list endpoint   *)
(* then answers 500 with no products.                                      *)
(***************************************************************************)
C15_StoreFailureIsAtomic ==
    \A r \in Requests :
        LET c == call[r]
            h == http[r]
        IN /\ (c.pc = "done" /\ c.reads > 0 /\ c.err # ErrNone) =>
                 /\ c.err = ErrStore
                 /\ c.err # ErrInvalidPagination
                 /\ c.productsNil
                 /\ c.products = <<>>
                 /\ c.total = 0
           /\ (c.pc = "done" /\ c.err = ErrInvalidPagination) => c.reads = 0
           /\ (h.endpoint = "list" /\ h.pc = "done" /\ c.err = ErrStore) =>
                 /\ h.status = 500
                 /\ h.body.products = <<>>
                 /\ h.body.total = 0
                 /\ h.body.error = ErrStore

C15_Witness ==
    /\ call["r1"].pc = "done"
    /\ call["r1"].reads = 2
    /\ call["r1"].err = ErrStore
    /\ call["r1"].cver = version
    /\ CountRows(QueryRows(products, categories, call["r1"].filters), call["r1"].filters) > 0
    /\ call["r1"].total = 0
    /\ call["r1"].productsNil
    /\ http["r1"].endpoint = "list"
    /\ http["r1"].status = 500

(***************************************************************************)
(* C16: when the list endpoint is handed a negative offset and the         *)
(* repository answers ErrInvalidPagination, the response is a client-error *)
(* rejection (a 4xx status), not a server fault.                           *)
(***************************************************************************)
C16_InvalidPaginationIsClientError ==
    \A r \in Requests :
        (http[r].endpoint = "list" /\ http[r].pc = "done"
            /\ call[r].err = ErrInvalidPagination) =>
                http[r].status \in 400 .. 499

(***************************************************************************)
(* C17: a priceLessThan text that is not a decimal or is negative is       *)
(* answered with status 400 and GetProductsWithFilters is never entered;   *)
(* a non-negative decimal, zero included, is accepted and handed to the    *)
(* repository unchanged.                                                   *)
(***************************************************************************)
C17_PriceRejectedAtBoundary ==
    \A r \in Requests :
        LET h == http[r]
            text == h.query.priceLessThan
            d == NewFromString(text)
        IN (h.endpoint = "list" /\ text # <<>>) =>
              /\ (~d.ok \/ d.val < 0) =>
                    /\ h.pc = "done"
                    /\ h.status = 400
                    /\ h.body.error \in {MsgPriceFormat, MsgPriceNegative}
                    /\ call[r] = IdleCall
              /\ (d.ok /\ d.val >= 0) =>
                    /\ call[r].op = "GetProductsWithFilters"
                    /\ call[r].filters.PriceLessThan = [set |-> TRUE, val |-> d.val]
                    /\ h.status # 400
              /\ text = <<"0">> => call[r].filters.PriceLessThan = [set |-> TRUE, val |-> 0]
              /\ text = <<"1", "0", ".", "0", "0">> =>
                    call[r].filters.PriceLessThan = [set |-> TRUE, val |-> 1000]
              /\ text \in {<<"-", "5">>, <<"a", "b", "c">>} => h.status = 400

C17_Witness ==
    /\ http["r1"].endpoint = "list"
    /\ http["r1"].query.priceLessThan = <<"a", "b", "c">>
    /\ http["r1"].status = 400
    /\ call["r1"].op = "none"

(***************************************************************************)
(* C18: the list endpoint hands the repository a Limit in 1..100: a limit  *)
(* below 1 becomes 1, above 100 becomes 100, in range is kept, missing or  *)
(* non-integer becomes 10 (offset missing or non-integer becomes 0); the   *)
(* repository answers ErrInvalidPagination only for a negative offset, and *)
(* with a valid offset and no store failure the response is 200 with at    *)
(* most Limit products.                                                    *)
(***************************************************************************)
C18_LimitClamped ==
    \A r \in Requests :
        LET h == http[r]
            c == call[r]
            f == c.filters
        IN (h.endpoint = "list" /\ c.op = "GetProductsWithFilters") =>
              /\ f.Limit \in 1 .. 100
              /\ h.query.limit = <<"0">> => f.Limit = 1
              /\ h.query.limit = <<"-", "5">> => f.Limit = 1
              /\ h.query.limit = <<"1", "0", "1">> => f.Limit = 100
              /\ h.query.limit = <<"2">> => f.Limit = 2
              /\ h.query.limit \in {<<>>, <<"a", "b", "c">>} => f.Limit = 10
              /\ h.query.offset \in {<<>>, <<"x">>} => f.Offset = 0
              /\ h.query.offset = <<"1">> => f.Offset = 1
              /\ c.err = ErrInvalidPagination => f.Offset < 0
              /\ (h.pc = "done" /\ f.Offset >= 0 /\ c.err # ErrStore) =>
                    /\ h.status = 200
                    /\ Len(h.body.products) <= f.Limit

C18_Witness ==
    /\ http["r1"].endpoint = "list"
    /\ http["r1"].pc = "done"
    /\ http["r1"].query.limit = <<"0">>
    /\ call["r1"].filters.Limit = 1
    /\ http["r1"].status = 200
    /\ Len(http["r1"].body.products) = 1
    /\ http["r1"].body.total > 1

(***************************************************************************)
(* C19: every step of a GetAllProducts, GetProductsWithFilters or          *)
(* GetProductByCode call, successful or failing, leaves the stored         *)
(* products, categories and variants unchanged.                            *)
(***************************************************************************)
C19_ReadsLeaveStoreUnchanged ==
    [][(call' # call \/ lookup' # lookup) =>
          /\ products' = products
          /\ categories' = categories
          /\ variants' = variants
          /\ version' = version]_vars

C19_Witness ==
    /\ call["r1"].op = "GetAllProducts"
    /\ call["r1"].pc = "done"
    /\ call["r1"].err = ErrNone
    /\ lookup["r2"].pc = "done"
    /\ lookup["r2"].code = "PROD001"
    /\ lookup["r2"].err = ErrNone
    /\ products = SeedProducts
    /\ categories = SeedCategories
    /\ variants = SeedVariants

(***************************************************************************)
(* C20: two detail lookups of the same code that read the same stored      *)
(* record set produce identical output: same code, price, category and the *)
(* same variants with the same effective prices in the same order.         *)
(***************************************************************************)
C20_RepeatedDetailIdentical ==
    (/\ lookup["r1"].pc = "done" /\ lookup["r2"].pc = "done"
     /\ lookup["r1"].err = ErrNone /\ lookup["r2"].err = ErrNone
     /\ lookup["r1"].code = lookup["r2"].code
     /\ lookup["r1"].ver = lookup["r2"].ver) =>
        mapProductDetailsResponse(lookup["r1"].product)
            = mapProductDetailsResponse(lookup["r2"].product)

(***************************************************************************)
(* C21: no two stored categories share a code, whatever CreateCategory     *)
(* calls ran and however two calls with the same code interleaved; the     *)
(* INSERT of a code that is already stored returns ErrCategoryCodeExists   *)
(* and leaves the stored categories as they were.                          *)
(***************************************************************************)
C21_CategoryCodesUnique ==
    [][/\ \A c1, c2 \in categories' : c1.code = c2.code => c1 = c2
       /\ \A r \in Requests :
            (catcall[r].pc = "create" /\ catcall'[r].pc = "done"
                /\ catcall'[r].err # ErrStore) =>
               IF \E c \in categories : c.code = StringOf(catcall[r].category.Code)
               THEN /\ catcall'[r].err = ErrCategoryCodeExists
                    /\ catcall'[r].ID = 0
                    /\ categories' = categories
               ELSE catcall'[r].err = ErrNone]_vars

C21_Witness ==
    /\ catcall["r1"].op = "CreateCategory" /\ catcall["r2"].op = "CreateCategory"
    /\ catcall["r1"].category.Code = TextEL /\ catcall["r2"].category.Code = TextEL
    /\ catcall["r1"].pc = "done" /\ catcall["r1"].err = ErrCategoryCodeExists
    /\ catcall["r2"].pc = "done" /\ catcall["r2"].err = ErrNone
    /\ Cardinality({c \in categories : c.code = "EL"}) = 1

(***************************************************************************)
(* C22: CreateCategory with a nil category, or with a code or name that is *)
(* empty or made of whitespace only, returns ErrInvalidCategory at once:   *)
(* the call never reaches the INSERT and the stored categories stay as     *)
(* they were.                                                              *)
(***************************************************************************)
C22_InvalidCategoryRejected ==
    [][\A r \in Requests :
         LET c == catcall'[r].category
         IN (/\ catcall[r].pc = "idle"
             /\ catcall'[r].op = "CreateCategory"
             /\ \/ c.nil
                \/ \A i \in 1 .. Len(c.Code) : c.Code[i] \in {" ", "\t"}
                \/ \A i \in 1 .. Len(c.Name) : c.Name[i] \in {" ", "\t"}) =>
               /\ catcall'[r].pc = "done"
               /\ catcall'[r].err = ErrInvalidCategory
               /\ catcall'[r].ID = 0
               /\ categories' = categories
               /\ version' = version]_vars

C22_Witness ==
    /\ catcall["r1"].op = "CreateCategory"
    /\ catcall["r1"].pc = "done"
    /\ catcall["r1"].category.Code = <<" ">>
    /\ catcall["r1"].category.Name = TextName
    /\ catcall["r1"].err = ErrInvalidCategory
    /\ categories = SeedCategories
    /\ version = 0

(***************************************************************************)
(* C24: a CreateCategory that succeeded has set a non-zero ID; while the   *)
(* row is not deleted it is stored under that ID with exactly the code and *)
(* the name given; and a GetAllCategories that ran after the creation      *)
(* returns it together with every category stored before it, as long as   *)
(* none of them was deleted.                                               *)
(***************************************************************************)
C24_CreatedCategoryPersisted ==
    \A r \in Requests :
        LET k == catcall[r]
        IN (k.op = "CreateCategory" /\ k.pc = "done" /\ k.err = ErrNone) =>
              /\ k.ID # 0
              /\ \A c \in categories :
                    c.id = k.ID => /\ c.code = StringOf(k.category.Code)
                                   /\ c.name = StringOf(k.category.Name)
              /\ version = k.ver => \E c \in categories : c.id = k.ID
              /\ \A q \in Requests :
                    LET g == catcall[q]
                    IN (/\ g.op = "GetAllCategories" /\ g.pc = "done" /\ g.err = ErrNone
                        /\ g.ver >= k.ver) =>
                          \A c \in categories :
                              c.id <= k.ID =>
                                  \E i \in 1 .. Len(g.categories) : g.categories[i] = c

C24_Witness ==
    /\ catcall["r1"].op = "CreateCategory"
    /\ catcall["r1"].pc = "done"
    /\ catcall["r1"].err = ErrNone
    /\ catcall["r1"].category = CategoryOf(TextEL, TextName)
    /\ catcall["r1"].ID # 0
    /\ catcall["r2"].op = "GetAllCategories"
    /\ catcall["r2"].pc = "done"
    /\ catcall["r2"].ver >= catcall["r1"].ver
    /\ Len(catcall["r2"].categories) = Cardinality(SeedCategories) + 1
    /\ \E i \in 1 .. Len(catcall["r2"].categories) :
         /\ catcall["r2"].categories[i].code = "EL"
         /\ catcall["r2"].categories[i].name = "El"
         /\ catcall["r2"].categories[i].id = catcall["r1"].ID

(***************************************************************************)
(* C23: POST /categories answers 400 for an undecodable body, for a code   *)
(* or name that is empty or whitespace only, for a code longer than 50 or  *)
(* a name longer than 255 characters; otherwise 409 "Category code already *)
(* exists" when the code is stored, 500 for another store error, and 201   *)
(* with the created code and name; a row is written only in the 201 case.  *)
(***************************************************************************)
C23_CreateEndpointStatus ==
    /\ \A c \in categories \ SeedCategories :
          \E q \in Requests :
              /\ catcall[q].ID = c.id
              /\ cathttp[q].pc = "done" => cathttp[q].status = 201
    /\ \A r \in Requests :
        LET h == cathttp[r]
            k == catcall[r]
            blank(t) == \A i \in 1 .. Len(t) : t[i] \in {" ", "\t"}
            bad == \/ ~h.decodable
                   \/ blank(h.req.Code) \/ blank(h.req.Name)
                   \/ Len(h.req.Code) > 50 \/ Len(h.req.Name) > 255
        IN h.pc = "done" =>
              /\ h.status \in {400, 409, 500, 201}
              /\ bad => (h.status = 400 /\ k = IdleCategoryCall)
              /\ ~bad =>
                    /\ k.op = "CreateCategory" /\ k.pc = "done"
                    /\ k.err = ErrCategoryCodeExists =>
                          (h.status = 409 /\ h.body.error = "Category code already exists")
                    /\ k.err = ErrStore => h.status = 500
                    /\ k.err = ErrNone =>
                          /\ h.status = 201
                          /\ h.body.code = StringOf(h.req.Code)
                          /\ h.body.name = StringOf(h.req.Name)
                    /\ k.err \in {ErrCategoryCodeExists, ErrStore, ErrNone}
                    /\ (h.status = 409 /\ k.ver = version) =>
                          \E c \in categories : c.code = StringOf(h.req.Code)
              /\ h.status # 201 => k.ID = 0
              /\ (h.status = 201 /\ k.ver = version) =>
                    \E c \in categories : c.id = k.ID /\ c.code = h.body.code

(***************************************************************************)
(* C25: once a category has been created, a listing with its code succeeds *)
(* with an empty page and total 0, and a listing with any other filter set *)
(* returns the same total and the same page as the listing with these      *)
(* filters returned before the creation.                                   *)
(***************************************************************************)
C25_ListingToleratesNewCategory ==
    LET k == catcall["r2"]
        created == k.op = "CreateCategory" /\ k.pc = "done" /\ k.err = ErrNone
        after(c) == c.pc = "done" /\ created /\ c.cver >= k.ver /\ c.fver >= k.ver
        before(c) == c.pc = "done" /\ (created => c.fver < k.ver)
    IN /\ \A r \in Requests :
            (after(call[r]) /\ call[r].filters.CategoryCode = StringOf(k.category.Code)) =>
                /\ call[r].err = ErrNone
                /\ call[r].total = 0
                /\ call[r].products = <<>>
       /\ (/\ before(call["r1"]) /\ after(call["r2"])
           /\ call["r1"].filters = call["r2"].filters) =>
              /\ call["r2"].err = call["r1"].err
              /\ call["r2"].total = call["r1"].total
              /\ call["r2"].products = call["r1"].products

(***************************************************************************)
(* C26: with list and detail requests running concurrently against an      *)
(* unchanging store, each request ends with a result of its own filters,   *)
(* window and code on that store, one it can return when running alone:    *)
(* nothing of another request's filters, window, total or page shows.      *)
(***************************************************************************)
C26_RequestsIndependent ==
    \A r \in Requests :
        LET c == call[r]
            l == lookup[r]
            f == c.filters
            rows == QueryRows(SeedProducts, SeedCategories, f)
            hit == {p \in SeedProducts : p.code = l.code}
        IN /\ (c.pc \in {"fetch", "done"} /\ c.err = ErrNone) => c.total = Cardinality(rows)
           /\ (c.pc = "done" /\ c.err = ErrNone) =>
                 \E order \in Orderings(rows) :
                     c.products = [i \in 1 .. Len(Window(order, f.Offset, f.Limit)) |->
                                     Preload(Window(order, f.Offset, f.Limit)[i], SeedCategories)]
           /\ c.pc # "idle" => f \in ConcurrentFilterInputs
           /\ l.pc = "done" =>
                 IF hit = {}
                 THEN l.err = ErrProductNotFound /\ l.productNil
                 ELSE /\ l.err = ErrNone
                      /\ l.product.code = l.code
                      /\ \E p \in hit :
                            /\ l.product.id = p.id /\ l.product.price = p.price
                            /\ {l.product.Variants[i] : i \in 1 .. Len(l.product.Variants)}
                                  = {v \in SeedVariants : v.product_id = p.id}

C26_Witness ==
    /\ call["r1"].pc = "done" /\ call["r1"].filters.CategoryCode = "CLOTHING"
    /\ call["r1"].total = 2 /\ Len(call["r1"].products) = 1
    /\ call["r2"].pc = "done" /\ call["r2"].filters.CategoryCode = "SHOES"
    /\ call["r2"].filters.Offset # call["r1"].filters.Offset
    /\ call["r2"].total = 1
    /\ call["r1"].reads + call["r2"].reads = 4

(***************************************************************************)
(* C27: the count and the page fetch of a listing are two reads of the     *)
(* store: the total is the number of matching rows when the count ran and  *)
(* is not touched by the fetch, the page is a window of the matching rows  *)
(* when the fetch ran; with no write between the two reads the page length *)
(* is min(Limit, max(0, total - Offset)).                                  *)
(***************************************************************************)
C27_CountAndFetchAreSeparateReads ==
    [][\A r \in Requests :
         LET c == call[r]
             d == call'[r]
             f == c.filters
             now == QueryRows(products, categories, f)
         IN /\ (c.pc = "count" /\ d.pc = "fetch") =>
                  (d.total = Cardinality(now) /\ d.cver = version)
            /\ (c.pc = "fetch" /\ d.pc = "done" /\ d.err = ErrNone) =>
                  /\ d.total = c.total
                  /\ d.fver = version
                  /\ Len(d.products) = Min(f.Limit, Max(0, Cardinality(now) - f.Offset))
                  /\ \A i \in 1 .. Len(d.products) : \E p \in now : p.id = d.products[i].id
                  /\ d.cver = d.fver =>
                        Len(d.products) = Min(f.Limit, Max(0, d.total - f.Offset))]_vars

C27_Witness ==
    /\ call["r1"].pc = "done"
    /\ call["r1"].err = ErrNone
    /\ call["r1"].cver < call["r1"].fver
    /\ Len(call["r1"].products) > Max(0, call["r1"].total - call["r1"].filters.Offset)

(***************************************************************************)
(* C28: GetAllProducts(offset, limit) and GetProductsWithFilters with the  *)
(* same window, an empty CategoryCode and no PriceLessThan, run on the     *)
(* same catalogue state, return the same error, the same total and the     *)
(* same page.                                                              *)
(***************************************************************************)
C28_UnfilteredEqualsGetAll ==
    LET a == call["r1"]
        b == call["r2"]
    IN (/\ a.op = "GetAllProducts" /\ a.pc = "done"
        /\ b.op = "GetProductsWithFilters" /\ b.pc = "done"
        /\ a.filters = b.filters
        /\ a.cver = b.cver /\ a.fver = b.fver /\ a.cver = a.fver) =>
           /\ a.err = b.err
           /\ a.total = b.total
           /\ a.productsNil = b.productsNil
           /\ a.products = b.products

(***************************************************************************)
(* C29: a product without category is counted, and returned when the       *)
(* window reaches it, by a listing without category filter; a listing with *)
(* a non-empty CategoryCode neither counts nor returns it, under any code. *)
(***************************************************************************)
C29_UncategorisedProductOnlyUnfiltered ==
    \A r \in Requests :
        LET c == call[r]
            f == c.filters
            priced == {p \in products : f.PriceLessThan.set => p.price < f.PriceLessThan.val}
            categorised == {p \in priced :
                              \E k \in categories : k.id = p.category_id /\ k.code = f.CategoryCode}
        IN (Succeeded(c) /\ ReadCurrentStore(c)) =>
              IF f.CategoryCode # ""
              THEN /\ c.total = Cardinality(categorised)
                   /\ \A i \in 1 .. Len(c.products) :
                         /\ c.products[i].category_id # 0
                         /\ c.products[i].Category.code = f.CategoryCode
              ELSE /\ c.total = Cardinality(priced)
                   /\ (f.Offset = 0 /\ c.total <= f.Limit) =>
                         \A p \in priced :
                             p.category_id = 0 =>
                                 \E i \in 1 .. Len(c.products) :
                                     /\ c.products[i].id = p.id
                                     /\ c.products[i].Category = ZeroCategory

C29_Witness ==
    /\ Succeeded(call["r1"])
    /\ ReadCurrentStore(call["r1"])
    /\ call["r1"].filters.CategoryCode = ""
    /\ call["r1"].filters.Offset = 0
    /\ call["r1"].total = 2
    /\ Len(call["r1"].products) = 2
    /\ \E p \in products : p.category_id = 0
    /\ \E i \in 1 .. 2 : call["r1"].products[i].code = "PRODNEW"

(***************************************************************************)
(* C30: a successful detail response has one variant entry per stored      *)
(* variant of the product, in the stored order (ascending primary key),    *)
(* each with the stored name and SKU; the price of an entry differs from   *)
(* the stored price only where the stored price is zero; a product with no *)
(* variants is answered with 200 and an empty variant list.                *)
(***************************************************************************)
C30_DetailVariantsAsStored ==
    \A r \in Requests :
        LET h == http[r]
            p == lookup[r].product
            stored == {v \in variants : v.product_id = p.id}
            inOrder == CHOOSE s \in Orderings(stored) :
                          \A i, j \in 1 .. Len(s) : i < j => s[i].id < s[j].id
        IN (h.endpoint = "detail" /\ h.status = 200) =>
              /\ Len(h.body.detail.variants) = Cardinality(stored)
              /\ \A i \in 1 .. Cardinality(stored) :
                     /\ h.body.detail.variants[i].name = inOrder[i].name
                     /\ h.body.detail.variants[i].sku = inOrder[i].sku
                     /\ inOrder[i].price # 0 =>
                            h.body.detail.variants[i].price = InexactFloat64(inOrder[i].price)
              /\ stored = {} => h.body.detail.variants = <<>>
====
